---- MODULE Spec2Model ----
(***************************************************************************)
(* Voice chatbot API: the /chat/voice request pipeline of main.py and the  *)
(* three adapters it calls (speech_recognition_stt.py, gemini_api.py,      *)
(* elevenlabs_tts.py).  One request is in flight at a time; pc is the      *)
(* position of chat_voice_endpoint inside its try/except/finally.          *)
(***************************************************************************)
EXTENDS Integers, Sequences, FiniteSets, TLC

\* ------------------------------------------------------------------ bounds
MaxRequests == 2
MaxHistoryLen == 2
MaxChunks == 2

\* ------------------------------------------------------- optional values
None == [none |-> TRUE]
Some(v) == [none |-> FALSE, val |-> v]

\* Python truthiness of an Optional[str] / Optional[bytes]
TruthyStr(x) == (~x.none) /\ x.val # ""
TruthyBytes(x) == (~x.none) /\ x.val # <<>>

\* What an adapter call ends with: a returned value or an escaping exception
Returned(v) == [raised |-> FALSE, value |-> v]
Raised == [raised |-> TRUE, value |-> None]

\* --------------------------------------------------------------- base64
Alphabet ==
  << "A","B","C","D","E","F","G","H","I","J","K","L","M","N","O","P",
     "Q","R","S","T","U","V","W","X","Y","Z","a","b","c","d","e","f",
     "g","h","i","j","k","l","m","n","o","p","q","r","s","t","u","v",
     "w","x","y","z","0","1","2","3","4","5","6","7","8","9","+","/" >>

B64Char(i) == Alphabet[i + 1]
B64Index(c) == CHOOSE i \in 0..63 : Alphabet[i + 1] = c

RECURSIVE b64encode_dropping_tail(_)
b64encode_dropping_tail(bs) ==
  IF Len(bs) < 3 THEN <<>>
  ELSE << B64Char(bs[1] \div 4),
          B64Char((bs[1] % 4) * 16 + bs[2] \div 16),
          B64Char((bs[2] % 16) * 4 + bs[3] \div 64),
          B64Char(bs[3] % 64) >>
       \o b64encode_dropping_tail(SubSeq(bs, 4, Len(bs)))

RECURSIVE b64encode(_)
b64encode(bs) ==
  IF Len(bs) = 0 THEN <<>>
  ELSE IF Len(bs) = 1 THEN
    << B64Char(bs[1] \div 4), B64Char((bs[1] % 4) * 16), "=", "=" >>
  ELSE IF Len(bs) = 2 THEN
    << B64Char(bs[1] \div 4),
       B64Char((bs[1] % 4) * 16 + bs[2] \div 16),
       B64Char((bs[2] % 16) * 4), "=" >>
  ELSE << B64Char(bs[1] \div 4),
          B64Char((bs[1] % 4) * 16 + bs[2] \div 16),
          B64Char((bs[2] % 16) * 4 + bs[3] \div 64),
          B64Char(bs[3] % 64) >>
       \o b64encode(SubSeq(bs, 4, Len(bs)))

\* The standard decoder a client applies to bot_response_audio
RECURSIVE b64decode(_)
b64decode(cs) ==
  IF Len(cs) < 4 THEN <<>>
  ELSE LET i1 == B64Index(cs[1])
           i2 == B64Index(cs[2])
           rest == b64decode(SubSeq(cs, 5, Len(cs)))
       IN IF cs[3] = "=" THEN << i1 * 4 + i2 \div 16 >>
          ELSE LET i3 == B64Index(cs[3])
               IN IF cs[4] = "=" THEN
                    << i1 * 4 + i2 \div 16, (i2 % 16) * 16 + i3 \div 4 >>
                  ELSE << i1 * 4 + i2 \div 16,
                          (i2 % 16) * 16 + i3 \div 4,
                          (i3 % 4) * 64 + B64Index(cs[4]) >> \o rest

IsBase64(cs) ==
  /\ Len(cs) % 4 = 0
  /\ \A i \in 1..Len(cs) :
       \/ \E k \in 1..64 : Alphabet[k] = cs[i]
       \/ cs[i] = "=" /\ i > Len(cs) - 2 /\ (i = Len(cs) \/ cs[Len(cs)] = "=")


\* ------------------------------------------------- sequences of bounded length
SeqUpTo(S, n) == UNION { [1..k -> S] : k \in 0..n }

\* ------------------------------------------------------ request inputs
\* Elements a JSON history list can hold: objects with some of the keys
\* 'role' and 'parts' (role_val is the value under 'role'), and a value that
\* is not an object at all (the JSON string "role parts").
Item(isdict, keys, role_val) == [isdict |-> isdict, keys |-> keys, role_val |-> role_val]
HistoryItems ==
  { Item(TRUE, {"role", "parts"}, "user"),
    Item(TRUE, {"role", "parts"}, "model"),
    Item(TRUE, {"role", "parts"}, "system"),
    Item(TRUE, {"role"}, "user"),
    Item(TRUE, {"parts"}, ""),
    Item(FALSE, {}, "") }

\* JSON values: a list of items, or something that is not a list
JsonList(items) == [islist |-> TRUE, items |-> items]
JsonNonList == [islist |-> FALSE, items |-> <<>>]
JsonValues == { JsonList(items) : items \in SeqUpTo(HistoryItems, MaxHistoryLen) }
                \cup { JsonNonList }

\* The history_json form field: None, the empty string, a string that is
\* not JSON, or the JSON text of a value.
HistoryJsonInputs ==
  { [kind |-> "None", value |-> JsonNonList],
    [kind |-> "empty", value |-> JsonNonList],
    [kind |-> "malformed", value |-> JsonNonList] }
  \cup { [kind |-> "json", value |-> v] : v \in JsonValues }

\* `if history_json:` (main.py line 65)
TruthyHistoryJson(h) == h.kind \notin {"None", "empty"}

\* json.loads: the parsed value, or JSONDecodeError (a ValueError)
json_loads(h) ==
  IF h.kind = "json" THEN [error |-> "", value |-> h.value]
  ELSE [error |-> "JSONDecodeError", value |-> JsonNonList]

\* main.py line 69 with a bug: only the first element is checked
ValidHistoryFirstOnly(v) ==
  /\ v.islist
  /\ (Len(v.items) > 0 =>
        /\ v.items[1].isdict
        /\ "role" \in v.items[1].keys
        /\ "parts" \in v.items[1].keys)

\* main.py line 69: isinstance(history, list) and all(isinstance(item, dict)
\* and 'role' in item and 'parts' in item for item in history)
ValidHistory(v) ==
  /\ v.islist
  /\ \A i \in 1..Len(v.items) :
       /\ v.items[i].isdict
       /\ "role" \in v.items[i].keys
       /\ "parts" \in v.items[i].keys

\* ------------------------------------------------- transcription adapter
Transcripts == {"hello", ""}
SttBackend ==
  { [kind |-> "recognized", text |-> t] : t \in Transcripts }
  \cup { [kind |-> k, text |-> ""] :
           k \in {"UnknownValueError", "RequestError", "FileNotFoundError", "Exception"} }

\* convert_audio_to_text with a bug: an unintelligible clip yields filler text
convert_audio_to_text_filler(backend) ==
  IF backend.kind = "recognized" THEN Returned(Some(backend.text))
  ELSE IF backend.kind = "UnknownValueError" THEN Returned(Some("(inaudible)"))
  ELSE Returned(None)

\* convert_audio_to_text: text stays None in every except branch
convert_audio_to_text(backend) ==
  IF backend.kind = "recognized" THEN Returned(Some(backend.text))
  ELSE IF backend.kind = "UnknownValueError" THEN Returned(None)
  ELSE IF backend.kind = "RequestError" THEN Returned(None)
  ELSE IF backend.kind = "FileNotFoundError" THEN Returned(None)
  ELSE Returned(None)

\* ------------------------------------------------------ dialogue adapter
BlockReasons == {"SAFETY", "OTHER"}
RECURSIVE JoinParts(_)
JoinParts(parts) ==
  IF parts = <<>> THEN "" ELSE parts[1] \o JoinParts(Tail(parts))

GeminiBackend ==
  { [kind |-> "response", parts |-> p, block_reason |-> ""] :
      p \in { <<>>, <<"Hi there!">>, <<"Hi ", "there!">>, <<"">> } }
  \cup { [kind |-> "response", parts |-> <<>>, block_reason |-> r] : r \in BlockReasons }
  \cup { [kind |-> "Exception", parts |-> <<>>, block_reason |-> ""] }

SafetySentence(reason) ==
  "I cannot respond to that due to safety guidelines (" \o reason \o ")."
FillerApology == "I'm sorry, I couldn't generate a response for that."

\* generate_response_with_gemini with a bug: a safety block is a failure
generate_response_with_gemini_block_fails(user_text, history, api_key, backend) ==
  IF ~api_key THEN Returned(None)
  ELSE IF user_text = "" THEN Returned(None)
  ELSE IF backend.kind = "Exception" THEN Returned(None)
  ELSE IF backend.parts = <<>> THEN
         IF backend.block_reason # "" THEN Returned(None)
         ELSE Returned(Some(FillerApology))
  ELSE Returned(Some(JoinParts(backend.parts)))

\* generate_response_with_gemini
generate_response_with_gemini(user_text, history, api_key, backend) ==
  IF ~api_key THEN Returned(None)
  ELSE IF user_text = "" THEN Returned(None)
  ELSE IF backend.kind = "Exception" THEN Returned(None)
  ELSE IF backend.parts = <<>> THEN
         IF backend.block_reason # "" THEN Returned(Some(SafetySentence(backend.block_reason)))
         ELSE Returned(Some(FillerApology))
  ELSE Returned(Some(JoinParts(backend.parts)))

\* ----------------------------------------------------- synthesis adapter
SampleChunks == { <<>>, <<0>>, <<77, 255>>, <<1, 2, 3>> }
RECURSIVE ConcatChunks(_)
ConcatChunks(chunks) ==
  IF chunks = <<>> THEN <<>> ELSE chunks[1] \o ConcatChunks(Tail(chunks))

TtsBackend ==
  { [kind |-> "ok", chunks |-> cs, body_is_json |-> FALSE] :
      cs \in SeqUpTo(SampleChunks, MaxChunks) }
  \cup { [kind |-> "HTTPError", chunks |-> <<>>, body_is_json |-> b] : b \in BOOLEAN }
  \cup { [kind |-> "ConnectionError", chunks |-> <<>>, body_is_json |-> FALSE] }

\* convert_text_to_speech_stream with a bug: the error body is returned
convert_text_to_speech_stream_error_body(text, api_key, backend) ==
  IF ~api_key THEN Returned(None)
  ELSE IF text = "" THEN Returned(None)
  ELSE IF backend.kind = "ok" THEN Returned(Some(ConcatChunks(backend.chunks)))
  ELSE IF backend.kind = "HTTPError" THEN Returned(Some(<<123, 125>>))
  ELSE Raised

\* convert_text_to_speech_stream.  requests.post raising (ConnectionError)
\* leaves `response` unbound: in the RequestException handler response.json()
\* raises UnboundLocalError, caught by the inner `except Exception`, whose
\* own body reads response.content and raises UnboundLocalError again, out
\* of the function.  After raise_for_status failed (HTTPError) `response`
\* is bound and the handler returns None whether or not the body is JSON.
convert_text_to_speech_stream(text, api_key, backend) ==
  IF ~api_key THEN Returned(None)
  ELSE IF text = "" THEN Returned(None)
  ELSE IF backend.kind = "ok" THEN Returned(Some(ConcatChunks(backend.chunks)))
  ELSE IF backend.kind = "HTTPError" THEN Returned(None)
  ELSE Raised


\* ------------------------------------------------------------------ state
VARIABLES
  GEMINI_API_KEY,       \* gemini_api.py module global: TRUE when the key is set
  ELEVENLABS_API_KEY,   \* elevenlabs_tts.py module global: TRUE when the key is set
  reqId,                \* number of the request in flight
  fs,                   \* temporary audio files that exist on disk
  pc,                   \* position inside chat_voice_endpoint
  history_json,         \* the form field of the request
  temp_audio_path,      \* local of chat_voice_endpoint
  user_text,            \* local
  history,              \* local
  bot_text_response,    \* local
  audio_stream_bytes,   \* local
  audio_base64,         \* local
  exc,                  \* the exception in flight inside the try block
  response,             \* what the request ends with: status, detail, content
  created,              \* the file NamedTemporaryFile created for this request
  calls,                \* adapters called by this request, in order
  backend               \* what each backend did for this request

vars == << GEMINI_API_KEY, ELEVENLABS_API_KEY, reqId, fs, pc, history_json,
           temp_audio_path, user_text, history, bot_text_response,
           audio_stream_bytes, audio_base64, exc, response, created, calls,
           backend >>

config == << GEMINI_API_KEY, ELEVENLABS_API_KEY >>

NoException == [type |-> "none", status_code |-> 0, detail |-> ""]
HTTPException(status_code, detail) ==
  [type |-> "HTTPException", status_code |-> status_code, detail |-> detail]
OtherException == [type |-> "Exception", status_code |-> 0, detail |-> ""]

NoResponse == [status_code |-> 0, detail |-> "", content |-> None]
NoBackend == [kind |-> "none"]

\* Entry of chat_voice_endpoint: temp_audio_path = None (line 45)
Entry(h) ==
  /\ pc' = "persist"
  /\ history_json' = h
  /\ temp_audio_path' = None
  /\ user_text' = None
  /\ history' = JsonList(<<>>)
  /\ bot_text_response' = None
  /\ audio_stream_bytes' = None
  /\ audio_base64' = None
  /\ exc' = NoException
  /\ response' = NoResponse
  /\ created' = None
  /\ calls' = <<>>
  /\ backend' = [stt |-> NoBackend, gemini |-> NoBackend, tts |-> NoBackend]

Init ==
  /\ GEMINI_API_KEY \in BOOLEAN
  /\ ELEVENLABS_API_KEY \in BOOLEAN
  /\ reqId = 1
  /\ fs = {}
  /\ pc = "persist"
  /\ history_json \in HistoryJsonInputs
  /\ temp_audio_path = None
  /\ user_text = None
  /\ history = JsonList(<<>>)
  /\ bot_text_response = None
  /\ audio_stream_bytes = None
  /\ audio_base64 = None
  /\ exc = NoException
  /\ response = NoResponse
  /\ created = None
  /\ calls = <<>>
  /\ backend = [stt |-> NoBackend, gemini |-> NoBackend, tts |-> NoBackend]

\* A further request arrives once the previous one has completed
NewRequest ==
  /\ pc = "done"
  /\ reqId < MaxRequests
  /\ reqId' = reqId + 1
  /\ \E h \in HistoryJsonInputs : Entry(h)
  /\ UNCHANGED << config, fs >>

\* Step 1, lines 48-53.  NamedTemporaryFile(delete=False) creates the file;
\* temp_audio_path is assigned last, after the upload was read and written.
UploadOutcomes == {"saved", "create_raises", "read_raises", "write_raises"}
SaveUpload ==
  /\ pc = "persist"
  /\ \E outcome \in UploadOutcomes :
       /\ fs' = IF outcome = "create_raises" THEN fs ELSE fs \cup {reqId}
       /\ created' = IF outcome = "create_raises" THEN None ELSE Some(reqId)
       /\ IF outcome = "saved"
          THEN /\ temp_audio_path' = Some(reqId)
               /\ pc' = "transcribe"
               /\ exc' = exc
          ELSE /\ temp_audio_path' = temp_audio_path
               /\ pc' = "except"
               /\ exc' = OtherException
  /\ UNCHANGED << config, reqId, history_json, user_text, history,
                  bot_text_response, audio_stream_bytes, audio_base64,
                  response, calls, backend >>

\* Step 2 with a bug: `if user_text is None` in place of `if not user_text`
Transcribe_none_check ==
  /\ pc = "transcribe"
  /\ \E b \in SttBackend :
       LET r == convert_audio_to_text(b) IN
       /\ backend' = [backend EXCEPT !.stt = b]
       /\ calls' = Append(calls, "convert_audio_to_text")
       /\ user_text' = r.value
       /\ IF r.value.none
          THEN /\ exc' = HTTPException(400, "Failed to transcribe audio.")
               /\ pc' = "except"
          ELSE /\ exc' = exc
               /\ pc' = "history"
  /\ UNCHANGED << config, reqId, fs, history_json, temp_audio_path, history,
                  bot_text_response, audio_stream_bytes, audio_base64,
                  response, created >>

\* Step 2, lines 57-61
Transcribe ==
  /\ pc = "transcribe"
  /\ \E b \in SttBackend :
       LET r == convert_audio_to_text(b) IN
       /\ backend' = [backend EXCEPT !.stt = b]
       /\ calls' = Append(calls, "convert_audio_to_text")
       /\ IF r.raised
          THEN /\ exc' = OtherException
               /\ pc' = "except"
               /\ user_text' = user_text
          ELSE /\ user_text' = r.value
               /\ IF ~TruthyStr(r.value)
                  THEN /\ exc' = HTTPException(400, "Failed to transcribe audio.")
                       /\ pc' = "except"
                  ELSE /\ exc' = exc
                       /\ pc' = "history"
  /\ UNCHANGED << config, reqId, fs, history_json, temp_audio_path, history,
                  bot_text_response, audio_stream_bytes, audio_base64,
                  response, created >>

\* Step 3, lines 64-74
ParseHistory ==
  /\ pc = "history"
  /\ IF ~TruthyHistoryJson(history_json)
     THEN /\ history' = JsonList(<<>>)
          /\ exc' = exc
          /\ pc' = "generate"
     ELSE LET parsed == json_loads(history_json) IN
          IF parsed.error # ""
          THEN /\ history' = JsonList(<<>>)
               /\ exc' = HTTPException(400, "Invalid history format: JSONDecodeError")
               /\ pc' = "except"
          ELSE /\ history' = parsed.value
               /\ IF ~ValidHistory(parsed.value)
                  THEN /\ exc' = HTTPException(400,
                                   "Invalid history format: Invalid history format.")
                       /\ pc' = "except"
                  ELSE /\ exc' = exc
                       /\ pc' = "generate"
  /\ UNCHANGED << config, reqId, fs, history_json, temp_audio_path, user_text,
                  bot_text_response, audio_stream_bytes, audio_base64,
                  response, created, calls, backend >>

\* Step 4, lines 77-81
Generate ==
  /\ pc = "generate"
  /\ \E b \in GeminiBackend :
       LET r == generate_response_with_gemini(user_text.val, history,
                                              GEMINI_API_KEY, b) IN
       /\ backend' = [backend EXCEPT !.gemini = IF GEMINI_API_KEY THEN b ELSE NoBackend]
       /\ calls' = Append(calls, "generate_response_with_gemini")
       /\ IF r.raised
          THEN /\ exc' = OtherException
               /\ pc' = "except"
               /\ bot_text_response' = bot_text_response
          ELSE /\ bot_text_response' = r.value
               /\ IF ~TruthyStr(r.value)
                  THEN /\ exc' = HTTPException(500,
                                   "Failed to generate response from language model.")
                       /\ pc' = "except"
                  ELSE /\ exc' = exc
                       /\ pc' = "synthesize"
  /\ UNCHANGED << config, reqId, fs, history_json, temp_audio_path, user_text,
                  history, audio_stream_bytes, audio_base64, response, created >>

\* Step 5, lines 84-88
Synthesize ==
  /\ pc = "synthesize"
  /\ \E b \in TtsBackend :
       LET r == convert_text_to_speech_stream(bot_text_response.val,
                                              ELEVENLABS_API_KEY, b) IN
       /\ backend' = [backend EXCEPT !.tts = IF ELEVENLABS_API_KEY THEN b ELSE NoBackend]
       /\ calls' = Append(calls, "convert_text_to_speech_stream")
       /\ IF r.raised
          THEN /\ exc' = OtherException
               /\ pc' = "except"
               /\ audio_stream_bytes' = audio_stream_bytes
          ELSE /\ audio_stream_bytes' = r.value
               /\ IF ~TruthyBytes(r.value)
                  THEN /\ exc' = HTTPException(500,
                                   "Failed to convert response to speech.")
                       /\ pc' = "except"
                  ELSE /\ exc' = exc
                       /\ pc' = "encode"
  /\ UNCHANGED << config, reqId, fs, history_json, temp_audio_path, user_text,
                  history, bot_text_response, audio_base64, response, created >>

\* Step 6, lines 91-92
Encode ==
  /\ pc = "encode"
  /\ audio_base64' = Some(b64encode(audio_stream_bytes.val))
  /\ pc' = "respond"
  /\ UNCHANGED << config, reqId, fs, history_json, temp_audio_path, user_text,
                  history, bot_text_response, audio_stream_bytes, exc,
                  response, created, calls, backend >>

\* Step 7, lines 95-99: the return value; `finally` runs before it is sent
Respond ==
  /\ pc = "respond"
  /\ response' = [status_code |-> 200, detail |-> "",
                  content |-> Some([user_transcription |-> user_text.val,
                                    bot_response_text |-> bot_text_response.val,
                                    bot_response_audio |-> audio_base64.val])]
  /\ pc' = "finally"
  /\ UNCHANGED << config, reqId, fs, history_json, temp_audio_path, user_text,
                  history, bot_text_response, audio_stream_bytes, audio_base64,
                  exc, created, calls, backend >>

\* The except clauses with a bug: every exception becomes a client error
RaisedAs_all_400(e) ==
  IF e.type = "HTTPException" THEN [status_code |-> 400, detail |-> e.detail]
  ELSE [status_code |-> 400, detail |-> "An internal server error occurred."]

\* Lines 101-106: an HTTPException is re-raised as it is, anything else
\* becomes HTTPException(500, "An internal server error occurred.")
RaisedAs(e) ==
  IF e.type = "HTTPException" THEN [status_code |-> e.status_code, detail |-> e.detail]
  ELSE [status_code |-> 500, detail |-> "An internal server error occurred."]

Except ==
  /\ pc = "except"
  /\ response' = [status_code |-> RaisedAs(exc).status_code,
                  detail |-> RaisedAs(exc).detail,
                  content |-> None]
  /\ pc' = "finally"
  /\ UNCHANGED << config, reqId, fs, history_json, temp_audio_path, user_text,
                  history, bot_text_response, audio_stream_bytes, audio_base64,
                  exc, created, calls, backend >>

\* Lines 107-114: the file is removed only when temp_audio_path was set;
\* an error of os.remove is logged and swallowed.  The function then exits:
\* its parameters and locals are gone, the response and the disk remain.
RemoveOutcomes == {"removed", "OSError"}
Finally ==
  /\ pc = "finally"
  /\ IF (~temp_audio_path.none) /\ temp_audio_path.val \in fs
     THEN \E outcome \in RemoveOutcomes :
            fs' = IF outcome = "removed" THEN fs \ {temp_audio_path.val} ELSE fs
     ELSE fs' = fs
  /\ pc' = "done"
  /\ history_json' = [kind |-> "None", value |-> JsonNonList]
  /\ temp_audio_path' = None
  /\ user_text' = None
  /\ history' = JsonList(<<>>)
  /\ bot_text_response' = None
  /\ audio_stream_bytes' = None
  /\ audio_base64' = None
  /\ exc' = NoException
  /\ UNCHANGED << config, reqId, response, created, calls, backend >>

Next ==
  \/ NewRequest
  \/ SaveUpload
  \/ Transcribe
  \/ ParseHistory
  \/ Generate
  \/ Synthesize
  \/ Encode
  \/ Respond
  \/ Except
  \/ Finally

Spec == Init /\ [][Next]_vars


\* ================================================================ claims
\* The response is decided (by Respond or Except) and the locals still exist
Decided == pc = "finally"
Completed == pc = "done"
Called(fn) == \E i \in 1..Len(calls) : calls[i] = fn

\* What the backends and the inputs of the request in flight amount to
SaveFailed == temp_audio_path.none
NoTranscript == backend.stt.kind # "recognized" \/ backend.stt.text = ""
HasBothFields(item) == {"role", "parts"} \subseteq item.keys
Supplied == TruthyHistoryJson(history_json)
WellFormedHistory ==
  /\ history_json.kind = "json"
  /\ history_json.value.islist
  /\ \A i \in 1..Len(history_json.value.items) :
       HasBothFields(history_json.value.items[i])
SafetyBlocked ==
  /\ backend.gemini.kind = "response"
  /\ backend.gemini.parts = <<>>
  /\ backend.gemini.block_reason # ""
SynthesisGaveAudio ==
  /\ ELEVENLABS_API_KEY
  /\ backend.tts.kind = "ok"
  /\ ConcatChunks(backend.tts.chunks) # <<>>

\* C1: once a request has completed, on whatever exit path, the temporary
\* audio file created for it does not exist.
C1_TempFileRemoved ==
  (Completed /\ ~created.none) => created.val \notin fs

\* C2: a request that does not succeed ends with 400 when the first stage
\* to fail is transcription (no text) or history validation, with 500 when it
\* is the dialogue stage, the synthesis stage or an unanticipated exception,
\* and with no other status.
C2_ExpectedStatus ==
  IF SaveFailed THEN 500
  ELSE IF NoTranscript THEN 400
  ELSE IF Supplied /\ ~WellFormedHistory THEN 400
  ELSE 500
C2_ErrorStatus ==
  (Decided /\ response.status_code # 200) =>
     /\ response.status_code \in {400, 500}
     /\ response.status_code = C2_ExpectedStatus
     /\ (exc.type = "Exception" => response.status_code = 500)
     /\ response.content.none
C2_Witness ==
  /\ Decided
  /\ response.status_code = 500
  /\ exc.type = "Exception"
  /\ Len(calls) = 3

\* C3: a supplied history_json that parses to a list whose elements all have
\* 'role' and 'parts' is accepted and reaches the dialogue stage as that
\* list; one that is not JSON, not a list, or has an element lacking a field
\* is rejected with 400 when the history stage is reached (the audio was
\* transcribed), and generate_response_with_gemini is never called.
C3_HistoryValidation ==
  /\ (Supplied /\ WellFormedHistory /\ TruthyStr(user_text) /\ pc # "history") =>
        /\ pc = "generate" \/ Called("generate_response_with_gemini")
        /\ history = history_json.value
  /\ (Supplied /\ ~WellFormedHistory) =>
        /\ ~Called("generate_response_with_gemini")
        /\ pc # "generate"
        /\ (Decided /\ TruthyStr(user_text)) => response.status_code = 400
C3_Witness ==
  /\ Decided
  /\ response.status_code = 400
  /\ TruthyStr(user_text)
  /\ history_json.kind = "json"
  /\ Len(history_json.value.items) = 2
  /\ HasBothFields(history_json.value.items[1])
  /\ ~HasBothFields(history_json.value.items[2])

\* C4: when the transcription backend could not understand the audio the
\* request ends in 400 "Failed to transcribe audio." and neither the
\* dialogue adapter nor the synthesis adapter is called.
C4_UnintelligibleAudio ==
  backend.stt.kind = "UnknownValueError" =>
     /\ calls = << "convert_audio_to_text" >>
     /\ pc \in {"except", "finally", "done"}
     /\ (Decided \/ Completed) =>
          /\ response.status_code = 400
          /\ response.detail = "Failed to transcribe audio."
C4_Witness ==
  /\ Completed
  /\ backend.stt.kind = "UnknownValueError"
  /\ response.status_code = 400

\* C5: a success response has a non-empty user_transcription (the
\* transcript), a non-empty bot_response_text and a bot_response_audio that
\* is valid base64 and decodes to the non-empty bytes the synthesis adapter
\* returned.
C5_SuccessPayload ==
  response.status_code = 200 =>
     /\ ~response.content.none
     /\ response.content.val.user_transcription # ""
     /\ response.content.val.user_transcription = backend.stt.text
     /\ response.content.val.bot_response_text # ""
     /\ response.content.val.bot_response_audio # <<>>
     /\ IsBase64(response.content.val.bot_response_audio)
     /\ ConcatChunks(backend.tts.chunks) # <<>>
     /\ b64decode(response.content.val.bot_response_audio)
          = ConcatChunks(backend.tts.chunks)
C5_Witness ==
  /\ Completed
  /\ response.status_code = 200
  /\ Len(ConcatChunks(backend.tts.chunks)) = 5

C7_SafetyBlockAlways200 ==
  (SafetyBlocked /\ Completed) =>
     /\ response.status_code = 200
     /\ response.content.val.bot_response_text
          = SafetySentence(backend.gemini.block_reason)

\* C7 amended: after a safety block the dialogue adapter returns the
\* non-empty sentence naming the block reason and the dialogue stage does not
\* fail: synthesis is called with that sentence; when synthesis yields audio
\* the request ends in 200 with bot_response_text equal to the sentence, and
\* otherwise in the 500 of the synthesis stage.
C7_SafetyBlockIsAReply ==
  SafetyBlocked =>
     /\ SafetySentence(backend.gemini.block_reason) # ""
     /\ pc \notin {"done"} => bot_text_response = Some(SafetySentence(backend.gemini.block_reason))
     /\ pc = "synthesize" \/ Called("convert_text_to_speech_stream")
     /\ (Decided \/ Completed) =>
          IF SynthesisGaveAudio
          THEN /\ response.status_code = 200
               /\ response.content.val.bot_response_text
                    = SafetySentence(backend.gemini.block_reason)
          ELSE /\ response.status_code = 500
               /\ response.detail \in {"Failed to convert response to speech.",
                                       "An internal server error occurred."}
C7_Witness ==
  /\ Completed
  /\ SafetyBlocked
  /\ backend.gemini.block_reason = "SAFETY"
  /\ response.status_code = 200

\* C8: no adapter lets an exception escape to the orchestrator: an
\* exception other than the orchestrator's own HTTPException is in flight
\* only when it was raised before any adapter was called.
C8_AdaptersNeverRaise ==
  (pc = "except" /\ exc.type = "Exception") => calls = <<>>

\* C9: every history handed to generate_response_with_gemini has elements
\* whose role is 'user' or 'model' and that have 'parts'.
C9_TurnInvariant ==
  Called("generate_response_with_gemini") =>
     \A i \in 1..Len(history.items) :
        /\ history.items[i].role_val \in {"user", "model"}
        /\ "parts" \in history.items[i].keys

\* C10: the stages run in the order persist, transcribe, validate history,
\* generate, synthesize, encode, respond; each adapter is called at most
\* once, a stage is entered only after the one before it succeeded, no
\* earlier stage is re-entered, and a failure goes straight to the except
\* clause and the finally block with no further stage or adapter call.
StageOrder ==
  { <<"persist", "transcribe">>, <<"transcribe", "history">>,
    <<"history", "generate">>, <<"generate", "synthesize">>,
    <<"synthesize", "encode">>, <<"encode", "respond">>,
    <<"respond", "finally">> }
FailureOrder ==
  { <<s, "except">> : s \in {"persist", "transcribe", "history", "generate", "synthesize"} }
  \cup { <<"except", "finally">> }
ExitOrder == { <<"finally", "done">>, <<"done", "persist">> }
AdapterOrder ==
  << "convert_audio_to_text", "generate_response_with_gemini",
     "convert_text_to_speech_stream" >>
C10_Entered ==
  /\ pc \in {"transcribe", "history", "generate", "synthesize", "encode", "respond"}
       => (~temp_audio_path.none) /\ exc.type = "none"
  /\ pc \in {"history", "generate", "synthesize", "encode", "respond"}
       => TruthyStr(user_text)
  /\ pc \in {"generate", "synthesize", "encode", "respond"}
       => (Supplied => WellFormedHistory)
  /\ pc \in {"synthesize", "encode", "respond"} => TruthyStr(bot_text_response)
  /\ pc \in {"encode", "respond"} => TruthyBytes(audio_stream_bytes)
  /\ pc = "respond" => ~audio_base64.none
  /\ pc = "except" => exc.type # "none"
  /\ Len(calls) <= 3
  /\ calls = SubSeq(AdapterOrder, 1, Len(calls))
C10_Step ==
  /\ pc' # pc => <<pc, pc'>> \in StageOrder \cup FailureOrder \cup ExitOrder
  /\ <<pc, pc'>> \in StageOrder /\ pc' \in {"history", "synthesize", "encode"}
       => Len(calls') = Len(calls) + 1
  /\ <<pc, pc'>> \in FailureOrder \cup {<<"finally", "done">>}
       => Len(calls') <= Len(calls) + 1
  /\ pc \in {"except", "finally"} => calls' = calls
  /\ pc = "finally" => response' = response
C10_StrictSequence == [](C10_Entered) /\ [][C10_Step]_vars
C10_Witness ==
  /\ Completed
  /\ response.status_code = 200
  /\ calls = AdapterOrder
  /\ reqId = 2

\* C11: the transcription failures reach the orchestrator as distinguishable
\* outcomes of convert_audio_to_text: what the adapter returns for a backend
\* or service error (RequestError) is not what it returns for unintelligible
\* audio (UnknownValueError), nor for undecodable audio or a missing file,
\* and the response to a service error is not the response C4 establishes
\* for unintelligible audio.
SttFailureKinds ==
  {"UnknownValueError", "RequestError", "FileNotFoundError", "Exception"}
SttFailure(kind) == [kind |-> kind, text |-> ""]
UnintelligibleResponse ==
  [status_code |-> 400, detail |-> "Failed to transcribe audio.", content |-> None]
C11_DistinguishableFailures ==
  (Decided /\ backend.stt.kind = "RequestError") =>
     /\ \A k \in SttFailureKinds \ {"RequestError"} :
          convert_audio_to_text(backend.stt) # convert_audio_to_text(SttFailure(k))
     /\ response # UnintelligibleResponse

====
